---------------------------- MODULE Spec2Model ----------------------------
(***************************************************************************)
(* Model of options_dashboard/dashboard/views.py: the mtime-keyed series   *)
(* loaders, the time filter, the asof merge, the row-wise Greeks           *)
(* orchestration and the parameter-fingerprinted aggregate cache of        *)
(* greeks_view.                                                            *)
(*                                                                         *)
(* Conventions.  A timestamp is a number of seconds since 1970-01-01       *)
(* 00:00:00 (timezone-naive).  A float rate is held exactly, in units of   *)
(* 1/10000 (0.05 is 500).  Python strings are TLA+ strings.  A DataFrame   *)
(* is a sequence of row records; NaN is the value NaN.                     *)
(***************************************************************************)
EXTENDS Integers, Sequences, FiniteSets, TLC

VARIABLES
    now,        \* the wall clock, in seconds
    files,      \* path -> [exists, mtime, content]: the backing files
    universe,   \* what list_option_files() returns
    cache,      \* django cache: key -> [value, expires]
    frame,      \* per request thread: the locals of greeks_view and its callees
    nreq,       \* requests started so far
    nwrites,    \* file modifications so far
    call        \* a direct call of one pure function: its inputs and result

vars == <<now, files, universe, cache, frame, nreq, nwrites, call>>

-----------------------------------------------------------------------------
(* Bounds of the model                                                     *)

MaxRequests == 2
MaxWrites == 1

-----------------------------------------------------------------------------
(* Python string primitives                                                *)

Char(s, i) == SubSeq(s, i, i)

Whitespace == {" ", "\t"}

\* t.strip() == '' : every character of t is whitespace
IsBlank(t) == \A i \in 1..Len(t) : Char(t, i) \in Whitespace

RECURSIVE StrStrip(_)
\* s.strip()
StrStrip(s) ==
    IF Len(s) = 0 THEN s
    ELSE IF Char(s, 1) \in Whitespace THEN StrStrip(SubSeq(s, 2, Len(s)))
    ELSE IF Char(s, Len(s)) \in Whitespace THEN StrStrip(SubSeq(s, 1, Len(s) - 1))
    ELSE s

RECURSIVE StrSplit(_, _)
\* s.split(sep) for a one-character sep: ''.split(',') is ['']
StrSplit(s, sep) ==
    IF \A i \in 1..Len(s) : Char(s, i) # sep THEN <<s>>
    ELSE LET i == CHOOSE k \in 1..Len(s) :
                      /\ Char(s, k) = sep
                      /\ \A j \in 1..(k - 1) : Char(s, j) # sep
         IN  <<SubSeq(s, 1, i - 1)>> \o StrSplit(SubSeq(s, i + 1, Len(s)), sep)

Digits == "0123456789"

IsDigit(c) == \E d \in 1..10 : Char(Digits, d) = c

DigitVal(c) == (CHOOSE d \in 1..10 : Char(Digits, d) = c) - 1

DigitStr(d) == Char(Digits, d + 1)

RECURSIVE NatVal(_)
\* the value of a string of decimal digits ("" is 0)
NatVal(s) ==
    IF Len(s) = 0 THEN 0
    ELSE 10 * NatVal(SubSeq(s, 1, Len(s) - 1)) + DigitVal(Char(s, Len(s)))

RECURSIVE NatStr(_)
\* str(n) for a natural number n
NatStr(n) == IF n < 10 THEN DigitStr(n) ELSE NatStr(n \div 10) \o DigitStr(n % 10)

\* "%02d" % n
TwoDigits(n) == DigitStr((n \div 10) % 10) \o DigitStr(n % 10)

\* the characters that order the keys of a parameter structure
Alphabet == "_abcdefghijklmnopqrstuvwxyz"

CharRank(c) == CHOOSE k \in 1..Len(Alphabet) : Char(Alphabet, k) = c

RECURSIVE StrLess(_, _)
\* a < b on Python strings (code-point order, here over Alphabet)
StrLess(a, b) ==
    IF Len(b) = 0 THEN FALSE
    ELSE IF Len(a) = 0 THEN TRUE
    ELSE IF Char(a, 1) = Char(b, 1)
         THEN StrLess(SubSeq(a, 2, Len(a)), SubSeq(b, 2, Len(b)))
         ELSE CharRank(Char(a, 1)) < CharRank(Char(b, 1))


-----------------------------------------------------------------------------
(* float(), repr(float), json.dumps, hashlib.sha256                        *)

AllDigits(s) == \A i \in 1..Len(s) : IsDigit(Char(s, i))

RECURSIVE PadRight(_, _)
PadRight(s, n) == IF Len(s) >= n THEN s ELSE PadRight(s \o "0", n)

RECURSIVE StripZeros(_)
StripZeros(s) ==
    IF Len(s) > 1 /\ Char(s, Len(s)) = "0" THEN StripZeros(SubSeq(s, 1, Len(s) - 1)) ELSE s

\* float(s) for a str s: surrounding whitespace is ignored, then an unsigned
\* decimal numeral with at most four fractional digits gives its value (in
\* 1/10000); any other text raises ValueError.  (Signs, exponents, inf and nan
\* are outside the inputs of the model.)
ParseFloat(s) ==
    LET t == StrStrip(s)
        parts == StrSplit(t, ".")
        ip == parts[1]
        fp == IF Len(parts) = 2 THEN parts[2] ELSE ""
    IN  IF /\ Len(parts) <= 2
           /\ AllDigits(ip) /\ AllDigits(fp)
           /\ Len(ip) + Len(fp) > 0
           /\ Len(fp) <= 4
        THEN [ok |-> TRUE, v |-> NatVal(ip) * 10000 + NatVal(PadRight(fp, 4))]
        ELSE [ok |-> FALSE, v |-> "ValueError"]

\* repr(x) of a float x >= 0.0001 held in 1/10000: 500 is "0.05", 10000 is "1.0"
FloatRepr(v) ==
    LET fp == v % 10000
        four == DigitStr(fp \div 1000) \o DigitStr((fp \div 100) % 10)
                  \o DigitStr((fp \div 10) % 10) \o DigitStr(fp % 10)
    IN  NatStr(v \div 10000) \o "." \o StripZeros(four)

RECURSIVE JoinStr(_, _)
\* sep.join(xs)
JoinStr(xs, sep) ==
    IF Len(xs) = 0 THEN ""
    ELSE IF Len(xs) = 1 THEN xs[1]
    ELSE xs[1] \o sep \o JoinStr(Tail(xs), sep)

Quote(s) == "\"" \o s \o "\""

\* json.dumps of a value: a float or a list of str (a list keeps its order)
JsonValue(x) ==
    IF x.t = "float" THEN FloatRepr(x.v)
    ELSE "[" \o JoinStr([i \in 1..Len(x.v) |-> Quote(x.v[i])], ", ") \o "]"

RECURSIVE InsertItem(_, _)
InsertItem(it, sorted) ==
    IF Len(sorted) = 0 THEN <<it>>
    ELSE IF StrLess(it[1], sorted[1][1]) THEN <<it>> \o sorted
    ELSE <<sorted[1]>> \o InsertItem(it, Tail(sorted))

RECURSIVE SortItems(_)
\* sorted(d.items()): a dict's items by key
SortItems(items) ==
    IF Len(items) = 0 THEN <<>>
    ELSE InsertItem(items[Len(items)], SortItems(SubSeq(items, 1, Len(items) - 1)))

\* json.dumps(d) of a dict, held as its items in insertion order
JsonObject(items) ==
    "{" \o JoinStr([i \in 1..Len(items) |->
                       Quote(items[i][1]) \o ": " \o JsonValue(items[i][2])], ", ") \o "}"

\* json.dumps(params) without sort_keys: insertion order
JsonDumpsUnsorted(params) == JsonObject(params)

\* json.dumps(params, sort_keys=True)
JsonDumps(params) == JsonObject(SortItems(params))

DigestTag == "sha256:"

\* hashlib.sha256(s.encode()).hexdigest(): the digest is idealised as an
\* injective function of the text (collision resistance)
Sha256Hex(s) == DigestTag \o s

get_cache_key(prefix, params) == prefix \o "_" \o Sha256Hex(JsonDumps(params))

-----------------------------------------------------------------------------
(* Timestamps and their text forms                                         *)

Day == 24 * 3600

At(d, h, m, sec) == d * Day + h * 3600 + m * 60 + sec

\* dt.strftime('%H:%M')
TimeStr(t) == TwoDigits((t \div 3600) % 24) \o ":" \o TwoDigits((t \div 60) % 60)

\* Timestamp.isoformat(), for the timestamps of January 1970
IsoFormat(t) ==
    "1970-01-" \o TwoDigits(t \div Day + 1) \o "T" \o TimeStr(t) \o ":" \o TwoDigits(t % 60)

\* datetime.strptime(s, "%Y-%m-%d") for the dates of January 1970: midnight
Strptime(s) == (NatVal(SubSeq(s, 9, 10)) - 1) * Day

\* the missing value of a float column: a number no price of the model takes
\* (prices are >= 0), so that NaN > 0 is false as in Python
NaN == 0 - 1

-----------------------------------------------------------------------------
(* filter_by_times, merge_with_spot, calculate_all_greeks                  *)

\* bool(s) of a str
StrTruthy(s) == Len(s) > 0

\* df[mask]: the rows whose mask entry is true, in order
SelectRows(df, mask) ==
    LET F[i \in 0..Len(df)] ==
            IF i = 0 THEN <<>>
            ELSE IF mask[i] THEN Append(F[i - 1], df[i]) ELSE F[i - 1]
    IN  F[Len(df)]

WithColumn(row, name, val) == (name :> val) @@ row

DropColumn(row, name) == [f \in DOMAIN row \ {name} |-> row[f]]

RECURSIVE InsertByDatetime(_, _)
InsertByDatetime(row, sorted) ==
    IF Len(sorted) = 0 THEN <<row>>
    ELSE IF row.datetime < sorted[1].datetime THEN <<row>> \o sorted
    ELSE <<sorted[1]>> \o InsertByDatetime(row, Tail(sorted))

RECURSIVE SortByDatetime(_)
\* df.sort_values('datetime'): ascending; rows of equal datetime keep their
\* order (numpy sorts runs of fewer than 16 elements by insertion)
SortByDatetime(df) ==
    IF Len(df) = 0 THEN <<>>
    ELSE InsertByDatetime(df[Len(df)], SortByDatetime(SubSeq(df, 1, Len(df) - 1)))

\* filter_by_times with the mask computed on a copy sorted by datetime and
\* applied by position to the unsorted frame
FilterBySortedMask(df, time_filters) ==
    IF Len(time_filters) = 0 \/ ~\E i \in 1..Len(time_filters) : StrTruthy(time_filters[i])
    THEN df
    ELSE LET copy == [i \in 1..Len(df) |->
                        WithColumn(df[i], "time_str", TimeStr(df[i].datetime))]
             sorted == SortByDatetime(copy)
             isin == [k \in 1..Len(copy) |->
                         \E i \in 1..Len(time_filters) : time_filters[i] = sorted[k].time_str]
             filtered == SelectRows(copy, isin)
         IN  [i \in 1..Len(filtered) |-> DropColumn(filtered[i], "time_str")]

filter_by_times(df, time_filters) ==
    IF Len(time_filters) = 0 \/ ~\E i \in 1..Len(time_filters) : StrTruthy(time_filters[i])
    THEN df
    ELSE LET copy == [i \in 1..Len(df) |->
                        WithColumn(df[i], "time_str", TimeStr(df[i].datetime))]
             isin == [k \in 1..Len(copy) |->
                         \E i \in 1..Len(time_filters) : time_filters[i] = copy[k].time_str]
             filtered == SelectRows(copy, isin)
         IN  [i \in 1..Len(filtered) |-> DropColumn(filtered[i], "time_str")]

\* pd.Timedelta('1min'), in seconds
Tolerance == 60

\* asof_join_backward: the last right row at or before t, if within tolerance
AsofBackward(t, right, tol) ==
    LET S == {j \in 1..Len(right) : right[j].datetime <= t}
        j == CHOOSE k \in S : \A l \in S : l <= k
    IN  IF S = {} THEN 0 ELSE IF t - right[j].datetime > tol THEN 0 ELSE j

\* asof_join_forward with the boundary left out: a row exactly tol away is lost
AsofForwardExclusive(t, right, tol) ==
    LET S == {j \in 1..Len(right) : right[j].datetime >= t}
        j == CHOOSE k \in S : \A l \in S : k <= l
    IN  IF S = {} THEN 0 ELSE IF right[j].datetime - t >= tol THEN 0 ELSE j

\* asof_join_forward: the first right row at or after t, if within tolerance
AsofForward(t, right, tol) ==
    LET S == {j \in 1..Len(right) : right[j].datetime >= t}
        j == CHOOSE k \in S : \A l \in S : k <= l
    IN  IF S = {} THEN 0 ELSE IF right[j].datetime - t > tol THEN 0 ELSE j

\* asof_join_nearest: the closer of the two, the backward one on a tie
AsofNearest(t, right, tol) ==
    LET b == AsofBackward(t, right, tol)
        f == AsofForward(t, right, tol)
    IN  IF b # 0 /\ f # 0
        THEN IF t - right[b].datetime <= right[f].datetime - t THEN b ELSE f
        ELSE IF b # 0 THEN b ELSE f

\* the name the right frame's close column gets: suffixes=('', '_spot') rename
\* it only when the left frame has a close column too
SpotCloseName(row) == IF "close" \in DOMAIN row THEN "close_spot" ELSE "close"

\* pd.merge_asof(left, right, on='datetime', direction='nearest', tolerance):
\* a left join, one output row per left row, NaN where nothing matched
MergeAsof(left, right, tol) ==
    [i \in 1..Len(left) |->
        LET j == AsofNearest(left[i].datetime, right, tol)
        IN  WithColumn(left[i], SpotCloseName(left[i]),
                       IF j = 0 THEN NaN ELSE right[j].close)]

merge_with_spot(option_df, spot_df) ==
    MergeAsof(SortByDatetime(option_df),
              SortByDatetime([i \in 1..Len(spot_df) |->
                                 [datetime |-> spot_df[i].datetime,
                                  close |-> spot_df[i].close]]),
              Tolerance)

\* params[name] of a dict held as its items
ParamGet(params, name) ==
    params[CHOOSE i \in 1..Len(params) : params[i][1] = name][2].v

\* implied_volatility(row) of dashboard/iv.py: fails on a non-positive or
\* missing option price or spot price, else a volatility (held as its inputs)
implied_volatility(row) ==
    IF "close" \in DOMAIN row /\ "close_spot" \in DOMAIN row
       /\ row.close # NaN /\ row.close_spot # NaN
       /\ row.close > 0 /\ row.close_spot > 0
    THEN [ok |-> TRUE, v |-> <<"iv", row.close, row.close_spot, row.T>>]
    ELSE [ok |-> FALSE, v |-> "error"]

\* compute_greeks(S, K, T, r, sigma, option_type) of dashboard/greeks.py: fails
\* on a non-positive input, else the mapping of Greek names to values (held as
\* its inputs)
compute_greeks(S, K, T, r, sigma, option_type) ==
    IF S # NaN /\ S > 0 /\ K > 0 /\ T > 0
    THEN [ok |-> TRUE, v |-> <<"greeks", S, K, T, r, sigma, option_type>>]
    ELSE [ok |-> FALSE, v |-> "error"]

\* one pass of the loop body of calculate_all_greeks: the rows a row appends
GreeksOfRow(row, file_info, params) ==
    LET iv == implied_volatility(row)
        greeks == IF iv.ok /\ "close_spot" \in DOMAIN row
                  THEN compute_greeks(row.close_spot, file_info.strike, row.T,
                                      ParamGet(params, "r"), iv.v, file_info.type)
                  ELSE [ok |-> FALSE, v |-> "error"]
    IN  IF greeks.ok
        THEN << [datetime |-> IsoFormat(row.datetime),
                 expiry |-> file_info.expiry,
                 strike |-> file_info.strike,
                 type |-> file_info.type,
                 greeks |-> greeks.v] >>
        ELSE <<>>

\* lines 79-81 with the boundary let in: a row at the expiry instant is valid
ValidRowsInclusive(merged_df, file_info) ==
    LET expiry_date == Strptime(file_info.expiry)
        withT == [i \in 1..Len(merged_df) |->
                     WithColumn(merged_df[i], "T", expiry_date - merged_df[i].datetime)]
    IN  SelectRows(withT, [i \in 1..Len(withT) |-> withT[i].T >= 0])

\* lines 79-81: the rows of positive time to expiry, with their T column.
\* T = total_seconds / (365 * 24 * 3600) is held as its numerator, in seconds:
\* T > 0 exactly when the numerator is
ValidRows(merged_df, file_info) ==
    LET expiry_date == Strptime(file_info.expiry)
        withT == [i \in 1..Len(merged_df) |->
                     WithColumn(merged_df[i], "T", expiry_date - merged_df[i].datetime)]
    IN  SelectRows(withT, [i \in 1..Len(withT) |-> withT[i].T > 0])

\* calculate_all_greeks with the try around the whole loop: the first failing
\* row ends the loop
CalculateUntilFailure(merged_df, file_info, params) ==
    IF Len(merged_df) = 0 THEN <<>>
    ELSE LET valid_rows == ValidRows(merged_df, file_info)
             R[i \in 0..Len(valid_rows)] ==
                 IF i = 0 THEN <<>>
                 ELSE IF Len(R[i - 1]) < i - 1 THEN R[i - 1]
                 ELSE R[i - 1] \o GreeksOfRow(valid_rows[i], file_info, params)
         IN  R[Len(valid_rows)]

calculate_all_greeks(merged_df, file_info, params) ==
    IF Len(merged_df) = 0 THEN <<>>
    ELSE LET valid_rows == ValidRows(merged_df, file_info)
             R[i \in 0..Len(valid_rows)] ==
                 IF i = 0 THEN <<>>
                 ELSE R[i - 1] \o GreeksOfRow(valid_rows[i], file_info, params)
         IN  R[Len(valid_rows)]

-----------------------------------------------------------------------------
(* The backing files and what pd.read_csv makes of them                    *)

SPOT_CSV == "spot.csv"

InstA == [path |-> "A.csv", expiry |-> "1970-01-02", strike |-> 100, type |-> "call"]
InstB == [path |-> "B.csv", expiry |-> "1970-01-02", strike |-> 200, type |-> "put"]

\* a second contract in A.csv, and the contract of InstA in another file
InstC == [path |-> "A.csv", expiry |-> "1970-01-02", strike |-> 150, type |-> "call"]
InstD == [path |-> "B.csv", expiry |-> "1970-01-02", strike |-> 100, type |-> "call"]

\* what list_option_files() of dashboard/utils.py may return
Universes == {<<>>, <<InstA, InstB>>}

Paths == {SPOT_CSV, "A.csv", "B.csv"}

SpotRow(t, c) == [datetime |-> t, close |-> c]
OptRow(t, k, ty, c) == [datetime |-> t, strike |-> k, type |-> ty, close |-> c]

SpotCols == {"datetime", "close"}
OptCols == {"datetime", "strike", "type", "close"}

\* the text of a file, by content name: whether the parser accepts it, its
\* header and its rows
FileData(c) ==
    CASE c = "spot1" ->
           [ok |-> TRUE, cols |-> SpotCols,
            rows |-> << SpotRow(At(0, 9, 15, 0), 1000), SpotRow(At(0, 10, 15, 30), 1010),
                        SpotRow(At(0, 11, 16, 1), 1020), SpotRow(At(0, 12, 15, 0), 1030),
                        SpotRow(At(0, 13, 15, 0), 1040), SpotRow(At(1, 9, 15, 0), 1050) >>]
      [] c = "spot2" ->
           [ok |-> TRUE, cols |-> SpotCols,
            rows |-> << SpotRow(At(0, 9, 15, 0), 1100), SpotRow(At(0, 10, 15, 0), 1110) >>]
      [] c = "a1" ->
           [ok |-> TRUE, cols |-> OptCols,
            rows |-> << OptRow(At(0, 9, 15, 0), 100, "call", 5),
                        OptRow(At(0, 10, 15, 0), 100, "call", 6),
                        OptRow(At(0, 10, 15, 0), 150, "call", 9),
                        OptRow(At(0, 11, 15, 0), 100, "call", 7),
                        OptRow(At(0, 12, 15, 0), 100, "call", 0),
                        OptRow(At(0, 9, 30, 0), 100, "call", 5),
                        OptRow(At(0, 13, 15, 0), 100, "call", 8),
                        OptRow(At(1, 9, 15, 0), 100, "call", 4) >>]
      [] c = "a2" ->
           [ok |-> TRUE, cols |-> OptCols,
            rows |-> << OptRow(At(0, 9, 15, 0), 100, "call", 50) >>]
      [] c = "b1" ->
           [ok |-> TRUE, cols |-> OptCols,
            rows |-> << OptRow(At(0, 9, 15, 0), 200, "put", 3),
                        OptRow(At(0, 10, 15, 0), 200, "call", 2) >>]
      [] c = "header" -> [ok |-> TRUE, cols |-> OptCols, rows |-> <<>>]
      [] c = "nostrike" ->
           [ok |-> TRUE, cols |-> {"datetime", "close"},
            rows |-> << SpotRow(At(0, 9, 15, 0), 3) >>]
      [] OTHER -> [ok |-> FALSE, cols |-> {}, rows |-> <<>>]   \* "empty", "garbage"

\* the contents a file may be given
Contents(path) ==
    IF path = SPOT_CSV THEN {"spot1", "spot2"}
    ELSE IF path = "A.csv" THEN {"a1", "a2"}
    ELSE {"empty", "nostrike", "header"}

File(c) == [exists |-> TRUE, mtime |-> 1, content |-> c]

\* pd.read_csv(path, parse_dates=['datetime']): raises on a missing file, on
\* text it cannot parse and on a header without the datetime column
ReadCsv(f) ==
    LET d == FileData(f.content)
    IN  IF f.exists /\ d.ok /\ "datetime" \in d.cols
        THEN [ok |-> TRUE, cols |-> d.cols, rows |-> d.rows]
        ELSE [ok |-> FALSE, cols |-> {}, rows |-> <<>>]

-----------------------------------------------------------------------------
(* The cache store (django.core.cache)                                     *)

PyNone == [t |-> "None", v |-> <<>>]
DataFrame(rows) == [t |-> "DataFrame", v |-> rows]
PyList(xs) == [t |-> "list", v |-> xs]

\* bool(x): None is false, a list is true when it has elements, and a
\* DataFrame has no truth value (pandas raises ValueError)
Truth(x) ==
    CASE x.t = "None" -> "False"
      [] x.t = "list" -> IF Len(x.v) > 0 THEN "True" ELSE "False"
      [] OTHER -> "ValueError"

\* cache.get(key): the value, or None when absent or expired
CacheGet(c, key, t) ==
    IF key \in DOMAIN c /\ t < c[key].expires THEN c[key].value ELSE PyNone

\* cache.set(key, value, timeout)
CacheSet(c, key, value, t, timeout) ==
    (key :> [value |-> value, expires |-> t + timeout]) @@ c

SpotTTL == 86400
OptionTTL == 86400
AggTTL == 3600

\* the instants the clock is observed at
Instants == {AggTTL - 1, AggTTL, SpotTTL}

SpotKey(mtime) == "spot_" \o NatStr(mtime)

\* a key per file: the instrument left out of the key
OptionKeyPerFile(mtime, file_info) == "option_" \o NatStr(mtime)

OptionKey(mtime, file_info) ==
    "option_" \o NatStr(mtime) \o "_" \o file_info.expiry \o "_"
        \o NatStr(file_info.strike) \o "_" \o file_info.type

-----------------------------------------------------------------------------
(* Parameter normalisation of greeks_view                                  *)

Absent == [has |-> FALSE, v |-> ""]
Given(s) == [has |-> TRUE, v |-> s]

DefaultRate == 500

DefaultTimes == <<"09:15", "10:15", "11:15", "12:15", "13:15", "15:15">>

\* request.GET.get(name, default)
QueryGet(q, default) == IF q.has THEN q.v ELSE default

\* `if t` in place of `if t.strip()`: only the empty entry is dropped
NotEmpty(t) == t # ""

\* `if t.strip()` at line 117
NotBlank(t) == StrStrip(t) # ""

\* the 'time_filter' value of params
NormalizeTimes(q) ==
    LET parts == StrSplit(QueryGet(q, ""), ",")
        kept == SelectRows(parts, [i \in 1..Len(parts) |-> NotBlank(parts[i])])
    IN  IF Len(kept) = 0 THEN DefaultTimes ELSE kept

\* the 'r' value of params: float(request.GET.get('r', 0.05))
NormalizeRate(q) == IF q.has THEN ParseFloat(q.v) ELSE [ok |-> TRUE, v |-> DefaultRate]

\* the params dict of greeks_view, or the ValueError float() raised
Normalize(query) ==
    LET rate == NormalizeRate(query.r)
    IN  IF rate.ok
        THEN [ok |-> TRUE,
              params |-> << <<"r", [t |-> "float", v |-> rate.v]>>,
                            <<"time_filter",
                              [t |-> "list", v |-> NormalizeTimes(query.time_filter)]>> >>]
        ELSE [ok |-> FALSE, params |-> <<>>]

\* the request parameters of the model
Query(r, time_filter) == [r |-> r, time_filter |-> time_filter]

Queries ==
    { Query(Absent, Absent), Query(Given("0.1"), Absent), Query(Given("abc"), Absent),
      Query(Absent, Given("09:15,10:15")), Query(Absent, Given("10:15, ,09:15")) }

-----------------------------------------------------------------------------
(* Request threads                                                         *)

Procs == {1, 2}

NoResponse == [status |-> "none", body |-> <<>>, exc |-> "", at |-> ""]
Ok(body) == [status |-> "ok", body |-> body, exc |-> "", at |-> ""]
Raised(exc, at) == [status |-> "error", body |-> <<>>, exc |-> exc, at |-> at]

\* The locals of one greeks_view call.  seq, loads, sets, enumerated,
\* agg_at_start, started and finished record what the call did: its number
\* among the requests, one entry per loader call, the keys it wrote, whether
\* it asked for the universe, what the aggregate key held when it looked, and
\* the clock at its first and last step.
NewFrame(query) ==
    [pc |-> "idle", seq |-> 0, query |-> query, params |-> <<>>, cache_key |-> "",
     spot_df |-> <<>>, option_files |-> <<>>, idx |-> 0, series_key |-> "",
     all_results |-> <<>>, response |-> NoResponse,
     loads |-> <<>>, sets |-> <<>>, enumerated |-> FALSE,
     agg_at_start |-> PyNone, started |-> 0, finished |-> 0]

IdleFrame == NewFrame([r |-> Absent, time_filter |-> Absent])

InFlight(p) == frame[p].pc \notin {"idle", "done"}

\* one loader call, as the caller saw it
LoadEntry(fn, file_info, f, key, cached, read, out, value) ==
    [fn |-> fn, file_info |-> file_info, exists |-> f.exists, mtime |-> f.mtime,
     content |-> f.content, key |-> key, cached |-> cached, read |-> read,
     out |-> out, value |-> value]

SpotInfo == [path |-> SPOT_CSV, expiry |-> "", strike |-> 0, type |-> ""]

\* where the instrument loop stands after i - 1 instruments
LoopPc(i, option_files) == IF i > Len(option_files) THEN "finish" ELSE "opt_get"

\* the call fails with exception exc raised in function at
Abort(fr, exc, at) ==
    [fr EXCEPT !.pc = "done", !.response = Raised(exc, at), !.finished = now]

\* the last entry of the loader log, completed
EndLoad(fr, read, out, value) ==
    [fr.loads EXCEPT ![Len(fr.loads)] =
        [@ EXCEPT !.read = read, !.out = out, !.value = value]]

\* Start with the spot file's modification time made part of the aggregate key
StartKeyedByMtime(p, query) ==
    /\ nreq < MaxRequests
    /\ ~InFlight(p)
    /\ nreq' = nreq + 1
    /\ LET n == Normalize(query)
           fr == [NewFrame(query) EXCEPT !.started = now, !.seq = nreq + 1]
           key == get_cache_key("greeks", n.params) \o "_" \o NatStr(files[SPOT_CSV].mtime)
           cached == CacheGet(cache, key, now)
       IN  frame' = [frame EXCEPT ![p] =
              IF ~n.ok THEN Abort(fr, "ValueError", "greeks_view")
              ELSE LET fk == [fr EXCEPT !.params = n.params, !.cache_key = key,
                                        !.agg_at_start = cached]
                   IN  CASE Truth(cached) = "True" ->
                              [fk EXCEPT !.pc = "done", !.response = Ok(cached.v),
                                         !.finished = now]
                         [] Truth(cached) = "False" -> [fk EXCEPT !.pc = "spot_get"]
                         [] OTHER -> Abort(fk, "ValueError", "greeks_view")]
    /\ UNCHANGED <<now, files, universe, cache, nwrites, call>>

\* greeks_view, lines 113-127: normalise, derive the key, look the aggregate up
Start(p, query) ==
    /\ nreq < MaxRequests
    /\ ~InFlight(p)
    /\ nreq' = nreq + 1
    /\ LET n == Normalize(query)
           fr == [NewFrame(query) EXCEPT !.started = now, !.seq = nreq + 1]
           key == get_cache_key("greeks", n.params)
           cached == CacheGet(cache, key, now)
       IN  frame' = [frame EXCEPT ![p] =
              IF ~n.ok THEN Abort(fr, "ValueError", "greeks_view")
              ELSE LET fk == [fr EXCEPT !.params = n.params, !.cache_key = key,
                                        !.agg_at_start = cached]
                   IN  CASE Truth(cached) = "True" ->
                              [fk EXCEPT !.pc = "done", !.response = Ok(cached.v),
                                         !.finished = now]
                         [] Truth(cached) = "False" -> [fk EXCEPT !.pc = "spot_get"]
                         [] OTHER -> Abort(fk, "ValueError", "greeks_view")]
    /\ UNCHANGED <<now, files, universe, cache, nwrites, call>>

\* greeks_view, lines 128-130: the spot frame is in hand; ask for the universe
Enumerated(fr, spot_df) ==
    [fr EXCEPT !.spot_df = spot_df,
               !.option_files = universe,
               !.enumerated = TRUE,
               !.all_results = <<>>,
               !.idx = 1,
               !.pc = LoopPc(1, universe)]

\* get_spot_data, lines 19-24: the file's mtime, the key, the cache lookup; a
\* cached frame is returned if it is true, which no DataFrame is
SpotGet(p) ==
    /\ frame[p].pc = "spot_get"
    /\ LET fr == frame[p]
           f == files[SPOT_CSV]
           key == SpotKey(f.mtime)
           cached == CacheGet(cache, key, now)
           Log(k, c, out) ==
               Append(fr.loads, LoadEntry("get_spot_data", SpotInfo, f, k, c, FALSE, out,
                                          IF out = "return" THEN c.v ELSE <<>>))
       IN  frame' = [frame EXCEPT ![p] =
              IF ~f.exists
              THEN Abort([fr EXCEPT !.loads = Log("", PyNone, "raise")],
                         "FileNotFoundError", "get_spot_data")
              ELSE CASE Truth(cached) = "True" ->
                          Enumerated([fr EXCEPT !.loads = Log(key, cached, "return")],
                                     cached.v)
                     [] Truth(cached) = "False" ->
                          [fr EXCEPT !.loads = Log(key, cached, "pending"),
                                     !.series_key = key, !.pc = "spot_read"]
                     [] OTHER ->
                          Abort([fr EXCEPT !.loads = Log(key, cached, "raise")],
                                "ValueError", "get_spot_data")]
    /\ UNCHANGED <<now, files, universe, cache, nreq, nwrites, call>>

\* get_spot_data, lines 26-29, then greeks_view, lines 129-130: read the file,
\* store the frame, and ask for the universe
SpotRead(p) ==
    /\ frame[p].pc = "spot_read"
    /\ LET fr == frame[p]
           csv == ReadCsv(files[SPOT_CSV])
       IN  IF ~csv.ok
           THEN /\ frame' = [frame EXCEPT ![p] =
                       Abort([fr EXCEPT !.loads = EndLoad(fr, TRUE, "raise", <<>>)],
                             "ReadError", "get_spot_data")]
                /\ cache' = cache
           ELSE /\ cache' = CacheSet(cache, fr.series_key, DataFrame(csv.rows), now, SpotTTL)
                /\ frame' = [frame EXCEPT ![p] =
                       Enumerated([fr EXCEPT !.loads = EndLoad(fr, TRUE, "return", csv.rows),
                                             !.sets = Append(@, fr.series_key)],
                                  csv.rows)]
    /\ UNCHANGED <<now, files, universe, nreq, nwrites, call>>

\* lines 42-46: read the file and keep the instrument's rows; any exception
\* is caught at line 49
ReadOption(f, file_info) ==
    LET csv == ReadCsv(f)
        mine == [i \in 1..Len(csv.rows) |->
                    /\ csv.rows[i].strike = file_info.strike
                    /\ csv.rows[i].type = file_info.type]
    IN  IF csv.ok /\ "strike" \in csv.cols /\ "type" \in csv.cols
        THEN [ok |-> TRUE, rows |-> SelectRows(csv.rows, mine)]
        ELSE [ok |-> FALSE, rows |-> <<>>]

\* greeks_view, lines 134-149: the rows one loaded option frame contributes
InstrumentRows(option_df, spot_df, file_info, params) ==
    IF Len(option_df) = 0 THEN <<>>
    ELSE LET filtered_df == filter_by_times(option_df, ParamGet(params, "time_filter"))
         IN  IF Len(filtered_df) = 0 THEN <<>>
             ELSE LET merged_df == merge_with_spot(filtered_df, spot_df)
                  IN  IF Len(merged_df) = 0 THEN <<>>
                      ELSE calculate_all_greeks(merged_df, file_info, params)

\* greeks_view, lines 134-149 and the loop's advance: the option frame is in hand
Looped(fr, option_df) ==
    [fr EXCEPT !.all_results =
                   @ \o InstrumentRows(option_df, fr.spot_df, fr.option_files[fr.idx], fr.params),
               !.idx = @ + 1,
               !.pc = LoopPc(fr.idx + 1, fr.option_files)]

\* get_option_data, lines 33-38: the file's mtime, the key, the cache lookup; a
\* cached frame is returned if it is true, which no DataFrame is
OptGet(p) ==
    /\ frame[p].pc = "opt_get"
    /\ LET fr == frame[p]
           file_info == fr.option_files[fr.idx]
           f == files[file_info.path]
           key == OptionKey(f.mtime, file_info)
           cached == CacheGet(cache, key, now)
           Log(k, c, out) ==
               Append(fr.loads,
                      LoadEntry("get_option_data", file_info, f, k, c, FALSE, out,
                                IF out = "return" THEN c.v ELSE <<>>))
       IN  frame' = [frame EXCEPT ![p] =
              IF ~f.exists
              THEN Abort([fr EXCEPT !.loads = Log("", PyNone, "raise")],
                         "FileNotFoundError", "get_option_data")
              ELSE CASE Truth(cached) = "True" ->
                          Looped([fr EXCEPT !.loads = Log(key, cached, "return")], cached.v)
                     [] Truth(cached) = "False" ->
                          [fr EXCEPT !.loads = Log(key, cached, "pending"),
                                     !.series_key = key, !.pc = "opt_read"]
                     [] OTHER ->
                          Abort([fr EXCEPT !.loads = Log(key, cached, "raise")],
                                "ValueError", "get_option_data")]
    /\ UNCHANGED <<now, files, universe, cache, nreq, nwrites, call>>

\* OptRead with the empty frame of the except branch stored under the key
OptReadCachesFailure(p) ==
    /\ frame[p].pc = "opt_read"
    /\ LET fr == frame[p]
           file_info == fr.option_files[fr.idx]
           got == ReadOption(files[file_info.path], file_info)
       IN  /\ cache' = CacheSet(cache, fr.series_key, DataFrame(got.rows), now, OptionTTL)
           /\ frame' = [frame EXCEPT ![p] =
                  Looped([fr EXCEPT !.loads = EndLoad(fr, TRUE, "return", got.rows),
                                    !.sets = Append(@, fr.series_key)],
                         got.rows)]
    /\ UNCHANGED <<now, files, universe, nreq, nwrites, call>>

\* get_option_data, lines 40-51, then the rest of the loop body, lines 134-149
OptRead(p) ==
    /\ frame[p].pc = "opt_read"
    /\ LET fr == frame[p]
           file_info == fr.option_files[fr.idx]
           got == ReadOption(files[file_info.path], file_info)
       IN  IF got.ok
           THEN /\ cache' = CacheSet(cache, fr.series_key, DataFrame(got.rows), now, OptionTTL)
                /\ frame' = [frame EXCEPT ![p] =
                       Looped([fr EXCEPT !.loads = EndLoad(fr, TRUE, "return", got.rows),
                                         !.sets = Append(@, fr.series_key)],
                              got.rows)]
           ELSE /\ cache' = cache
                /\ frame' = [frame EXCEPT ![p] =
                       Looped([fr EXCEPT !.loads = EndLoad(fr, TRUE, "return", <<>>)], <<>>)]
    /\ UNCHANGED <<now, files, universe, nreq, nwrites, call>>

\* Finish with the series loaders' timeout on the aggregate entry
FinishDayTTL(p) ==
    /\ frame[p].pc = "finish"
    /\ LET fr == frame[p]
           done == [fr EXCEPT !.pc = "done", !.response = Ok(fr.all_results),
                              !.finished = now]
       IN  IF Len(fr.all_results) > 0
           THEN /\ cache' = CacheSet(cache, fr.cache_key, PyList(fr.all_results), now, SpotTTL)
                /\ frame' = [frame EXCEPT ![p] = [done EXCEPT !.sets = Append(@, fr.cache_key)]]
           ELSE /\ cache' = cache
                /\ frame' = [frame EXCEPT ![p] = done]
    /\ UNCHANGED <<now, files, universe, nreq, nwrites, call>>

\* greeks_view, lines 151-157: store a non-empty aggregate and respond
Finish(p) ==
    /\ frame[p].pc = "finish"
    /\ LET fr == frame[p]
           done == [fr EXCEPT !.pc = "done", !.response = Ok(fr.all_results),
                              !.finished = now]
       IN  IF Len(fr.all_results) > 0
           THEN /\ cache' = CacheSet(cache, fr.cache_key, PyList(fr.all_results), now, AggTTL)
                /\ frame' = [frame EXCEPT ![p] = [done EXCEPT !.sets = Append(@, fr.cache_key)]]
           ELSE /\ cache' = cache
                /\ frame' = [frame EXCEPT ![p] = done]
    /\ UNCHANGED <<now, files, universe, nreq, nwrites, call>>

-----------------------------------------------------------------------------
(* The environment: the file system and the clock                          *)

\* a file is written (or touched): new content, new modification time
WriteFile(path, c) ==
    /\ nwrites < MaxWrites
    /\ nwrites' = nwrites + 1
    /\ files' = [files EXCEPT ![path] =
                    [exists |-> TRUE, mtime |-> @.mtime + 1, content |-> c]]
    /\ UNCHANGED <<now, universe, cache, frame, nreq, call>>

RemoveFile(path) ==
    /\ nwrites < MaxWrites
    /\ files[path].exists
    /\ nwrites' = nwrites + 1
    /\ files' = [files EXCEPT ![path] = [@ EXCEPT !.exists = FALSE]]
    /\ UNCHANGED <<now, universe, cache, frame, nreq, call>>

Tick(t) ==
    /\ t > now
    /\ now' = t
    /\ UNCHANGED <<files, universe, cache, frame, nreq, nwrites, call>>

NoCall == [op |-> "none"]

EmptyCache == [k \in {} |-> PyNone]

InitFiles ==
    [path \in Paths |->
        File(IF path = SPOT_CSV THEN "spot1" ELSE IF path = "A.csv" THEN "a1" ELSE "b1")]

Init ==
    /\ now = 0
    /\ files = InitFiles
    /\ universe \in Universes
    /\ cache = EmptyCache
    /\ frame = [p \in Procs |-> IdleFrame]
    /\ nreq = 0
    /\ nwrites = 0
    /\ call = NoCall

\* requests are served one at a time, by the threads in turn
Turn == (nreq % Cardinality(Procs)) + 1

Request(p) ==
    /\ p = Turn
    /\ \A o \in Procs : ~InFlight(o)
    /\ \E query \in Queries : Start(p, query)

Step(p) == SpotGet(p) \/ SpotRead(p) \/ OptGet(p) \/ OptRead(p) \/ Finish(p)

EnvStep ==
    \/ \E path \in Paths : \E c \in Contents(path) : WriteFile(path, c)
    \/ \E path \in Paths : RemoveFile(path)
    \/ \E t \in Instants : Tick(t)

\* files change and time passes between requests, while more are to come
Environment ==
    /\ nreq < MaxRequests
    /\ \A p \in Procs : ~InFlight(p)
    /\ EnvStep

Next == (\E p \in Procs : Request(p) \/ Step(p)) \/ Environment

Spec == Init /\ [][Next]_vars

-----------------------------------------------------------------------------
(* Other universes: two contracts in one file, one contract in two files,   *)
(* and a file that cannot be read from the start                            *)

InstrumentSetups ==
    { [universe |-> <<InstA, InstC>>, b |-> "b1"],
      [universe |-> <<InstA, InstD>>, b |-> "b1"],
      [universe |-> <<InstB>>, b |-> "empty"] }

InitInstruments ==
    /\ now = 0
    /\ \E setup \in InstrumentSetups :
          /\ universe = setup.universe
          /\ files = [InitFiles EXCEPT !["B.csv"] = File(setup.b)]
    /\ cache = EmptyCache
    /\ frame = [p \in Procs |-> IdleFrame]
    /\ nreq = 0
    /\ nwrites = 0
    /\ call = NoCall

SpecInstruments == InitInstruments /\ [][Next]_vars

-----------------------------------------------------------------------------
(* Concurrent requests: the server runs greeks_view on several threads      *)
(* over the one cache, each thread at its own line; a cache.get or a        *)
(* cache.set is one step.  The files and the clock stand still meanwhile.   *)

\* requests whose normalised parameters coincide or differ
ConcQueries ==
    { Query(Absent, Absent), Query(Given("0.05"), Absent),
      Query(Absent, Given("09:15,10:15")) }

\* a thread takes a request whenever it is free
ConcRequest(p) == \E query \in ConcQueries : Start(p, query)

NextConc == \E p \in Procs : ConcRequest(p) \/ Step(p)

SpecConc == Init /\ [][NextConc]_vars

-----------------------------------------------------------------------------
(* Direct calls of the pure functions                                      *)

MaxRows == 2
MaxKeys == 2

\* the state of the program while a pure function is called on its own
Quiet ==
    /\ now = 0
    /\ files = InitFiles
    /\ universe = <<>>
    /\ cache = EmptyCache
    /\ frame = [p \in Procs |-> IdleFrame]
    /\ nreq = 0
    /\ nwrites = 0

SeqsUpTo(S, lo, hi) == UNION {[1..n -> S] : n \in lo..hi}

\* option and spot timestamps around the tolerance: 59, 60 and 61 seconds
\* before and after a spot observation, a tie, an exact match
MergeOptTimes == {39, 40, 41, 130, 159, 160, 161}
MergeSpotTimes == {100, 160}

\* series in any order; the close of a row tells the rows apart
OptionSeries ==
    {[i \in 1..Len(ts) |-> OptRow(ts[i], 100, "call", 10 + i)] :
        ts \in SeqsUpTo(MergeOptTimes, 1, MaxRows)}

SpotSeries ==
    {[j \in 1..Len(ts) |-> SpotRow(ts[j], 1000 + j)] :
        ts \in SeqsUpTo(MergeSpotTimes, 0, MaxRows)}

InitMerge ==
    /\ Quiet
    /\ \E o \in OptionSeries : \E sp \in SpotSeries :
          call = [op |-> "merge_with_spot", option_df |-> o, spot_df |-> sp,
                  done |-> FALSE, result |-> <<>>]

MergeCall ==
    /\ call.op = "merge_with_spot"
    /\ ~call.done
    /\ call' = [call EXCEPT !.done = TRUE,
                            !.result = merge_with_spot(call.option_df, call.spot_df)]
    /\ UNCHANGED <<now, files, universe, cache, frame, nreq, nwrites>>

NextMerge == MergeCall

SpecMerge == InitMerge /\ [][NextMerge]_vars

\* the items a parameter structure is built from
ParamItems ==
    { <<"r", [t |-> "float", v |-> 500]>>, <<"r", [t |-> "float", v |-> 1000]>>,
      <<"strike", [t |-> "float", v |-> 1000000]>>,
      <<"time_filter", [t |-> "list", v |-> <<"09:15", "10:15">>]>>,
      <<"time_filter", [t |-> "list", v |-> <<"10:15">>]>> }

\* dicts of at most MaxKeys keys, in every insertion order
ParamStructs ==
    {d \in SeqsUpTo(ParamItems, 0, MaxKeys) :
        \A i, j \in 1..Len(d) : i # j => d[i][1] # d[j][1]}

Prefixes == {"greeks", "spot"}

InitKey ==
    /\ Quiet
    /\ \E prefix \in Prefixes : \E p1, p2 \in ParamStructs :
          call = [op |-> "get_cache_key", prefix |-> prefix, p1 |-> p1, p2 |-> p2,
                  done |-> FALSE, k1 |-> "", k2 |-> ""]

KeyCall ==
    /\ call.op = "get_cache_key"
    /\ ~call.done
    /\ call' = [call EXCEPT !.done = TRUE,
                            !.k1 = get_cache_key(call.prefix, call.p1),
                            !.k2 = get_cache_key(call.prefix, call.p2)]
    /\ UNCHANGED <<now, files, universe, cache, frame, nreq, nwrites>>

NextKey == KeyCall

SpecKey == InitKey /\ [][NextKey]_vars

MaxObs == 3

\* a row of an aligned series: quality "good", "bad_iv" (no option price) or
\* "nan_spot" (no spot price matched); i tells the good rows apart
MergedRow(t, quality, i) ==
    [datetime |-> t, strike |-> 100, type |-> "call",
     close |-> IF quality = "bad_iv" THEN 0 ELSE 10 + i,
     close_spot |-> IF quality = "nan_spot" THEN NaN ELSE 1000]

Qualities == {"good", "bad_iv", "nan_spot"}

\* timestamps around the expiry instant of InstA, midnight of 1970-01-02
GreeksTimes == {Day - 2, Day - 1, Day, Day + 1}

\* aligned series as merge_with_spot leaves them: ascending in datetime
MergedSeries ==
    {[i \in 1..Len(ts) |-> MergedRow(ts[i], qs[i], i)] :
        <<ts, qs>> \in {x \in SeqsUpTo(GreeksTimes, 0, MaxObs) \X SeqsUpTo(Qualities, 0, MaxObs) :
                          /\ Len(x[1]) = Len(x[2])
                          /\ \A i \in 1..(Len(x[1]) - 1) : x[1][i] <= x[1][i + 1]}}

\* batches of ten observations before expiry, one second apart, of which the
\* j-th has no option price
Batches ==
    {[i \in 1..10 |-> MergedRow(Day - 11 + i, IF i = j THEN "bad_iv" ELSE "good", i)] :
        j \in 1..10}

DefaultParams == Normalize(Query(Absent, Absent)).params

InitGreeks ==
    /\ Quiet
    /\ \E m \in MergedSeries \cup Batches :
          call = [op |-> "calculate_all_greeks", merged_df |-> m, file_info |-> InstA,
                  params |-> DefaultParams, done |-> FALSE, passed |-> <<>>, result |-> <<>>]

\* one call; passed records the rows handed to implied_volatility at line 89
GreeksCall ==
    /\ call.op = "calculate_all_greeks"
    /\ ~call.done
    /\ call' = [call EXCEPT
                  !.done = TRUE,
                  !.passed = IF Len(call.merged_df) = 0 THEN <<>>
                             ELSE ValidRows(call.merged_df, call.file_info),
                  !.result = calculate_all_greeks(call.merged_df, call.file_info, call.params)]
    /\ UNCHANGED <<now, files, universe, cache, frame, nreq, nwrites>>

NextGreeks == GreeksCall

SpecGreeks == InitGreeks /\ [][NextGreeks]_vars

MaxMarkers == 2

\* clock times on and off the markers, two in the same minute
FilterTimes == {At(0, 9, 15, 0), At(0, 9, 15, 30), At(0, 10, 15, 0), At(0, 11, 0, 0)}

\* option series in any order, as a file may hold them
FilterSeries ==
    {[i \in 1..Len(ts) |-> OptRow(ts[i], 100, "call", 10 + i)] :
        ts \in SeqsUpTo(FilterTimes, 0, MaxRows)}

Markers == {"", " ", "09:15", "10:15"}

MarkerLists == SeqsUpTo(Markers, 0, MaxMarkers)

InitFilter ==
    /\ Quiet
    /\ \E df \in FilterSeries : \E tf \in MarkerLists :
          call = [op |-> "filter_by_times", df |-> df, time_filters |-> tf,
                  done |-> FALSE, result |-> <<>>, again |-> <<>>]

\* filter_by_times(df, time_filters), and the same filter on its result
FilterCall ==
    /\ call.op = "filter_by_times"
    /\ ~call.done
    /\ LET once == filter_by_times(call.df, call.time_filters)
       IN  call' = [call EXCEPT !.done = TRUE,
                                !.result = once,
                                !.again = filter_by_times(once, call.time_filters)]
    /\ UNCHANGED <<now, files, universe, cache, frame, nreq, nwrites>>

NextFilter == FilterCall

SpecFilter == InitFilter /\ [][NextFilter]_vars

\* time_filter values: up to MaxEntries entries joined by commas
MaxEntries == 3

EntryTexts == {"", " ", "09:15", " 10:15"}

TimeFilterQueries ==
    {Absent} \cup {Given(JoinStr(es, ",")) : es \in SeqsUpTo(EntryTexts, 1, MaxEntries)}

RateQueries == {Absent, Given("0.1")}

InitNormalize ==
    /\ Quiet
    /\ \E r \in RateQueries : \E tf \in TimeFilterQueries :
          call = [op |-> "normalize", query |-> Query(r, tf), done |-> FALSE,
                  params |-> <<>>, passed |-> <<>>]

\* lines 113-119, and the marker list line 138 hands to filter_by_times
NormalizeCall ==
    /\ call.op = "normalize"
    /\ ~call.done
    /\ LET n == Normalize(call.query)
       IN  call' = [call EXCEPT !.done = TRUE,
                                !.params = n.params,
                                !.passed = ParamGet(n.params, "time_filter")]
    /\ UNCHANGED <<now, files, universe, cache, frame, nreq, nwrites>>

NextNormalize == NormalizeCall

SpecNormalize == InitNormalize /\ [][NextNormalize]_vars

-----------------------------------------------------------------------------
(* Properties                                                              *)

Entries(p) == {frame[p].loads[i] : i \in 1..Len(frame[p].loads)}

Done(p) == frame[p].pc = "done"

\* the call found no aggregate under its key and went on to the pipeline
Missed(p) == frame[p].seq > 0 /\ frame[p].params # <<>> /\ frame[p].agg_at_start = PyNone

\* C1: a load that finds a live entry under its mtime-derived key returns
\* normally with exactly the cached series and reads no file; a load that
\* finds none (first load, changed mtime, elapsed TTL) goes on to read the file.
C1_CachedLoadReturnsCached ==
    \A p \in Procs : \A e \in Entries(p) :
        /\ e.cached # PyNone =>
              e.out = "return" /\ e.value = e.cached.v /\ ~e.read
        /\ (e.exists /\ e.cached = PyNone) => (e.out = "pending" \/ e.read)

\* C2: no loader call raises to its caller, and a load whose file is missing
\* returns an empty series.
C2_LoaderNeverRaises ==
    \A p \in Procs : \A e \in Entries(p) :
        /\ e.out # "raise"
        /\ ~e.exists => (e.out = "return" /\ e.value = <<>>)

OptionEntries(p) ==
    SelectRows(frame[p].loads,
               [i \in 1..Len(frame[p].loads) |-> frame[p].loads[i].fn = "get_option_data"])

\* the rows the instruments that loaded contribute, in universe order
RowsOfLoaded(p) ==
    LET es == OptionEntries(p)
        R[i \in 0..Len(es)] ==
            IF i = 0 THEN <<>>
            ELSE R[i - 1] \o InstrumentRows(es[i].value, frame[p].spot_df,
                                            es[i].file_info, frame[p].params)
    IN  R[Len(es)]

\* C3: a request whose spot load succeeded and whose only failures are option
\* files that are missing, empty or malformed completes, and its result is the
\* concatenation of the rows of the other instruments, each tagged with the
\* instrument that produced it.
C3_InstrumentFailureNeverAborts ==
    \A p \in Procs :
        ( /\ Done(p)
          /\ Missed(p)
          /\ Len(frame[p].loads) > 0
          /\ frame[p].loads[1].out = "return"
          /\ \A e \in Entries(p) : e.cached = PyNone )
        => /\ frame[p].response.status = "ok"
           /\ frame[p].response.body = RowsOfLoaded(p)
           /\ \A i \in 1..Len(frame[p].response.body) :
                 \E e \in Entries(p) :
                    /\ e.fn = "get_option_data"
                    /\ frame[p].response.body[i].expiry = e.file_info.expiry
                    /\ frame[p].response.body[i].strike = e.file_info.strike
                    /\ frame[p].response.body[i].type = e.file_info.type

\* C4: normalisation never fails on the rate: an absent or unparseable r gives
\* 0.05 and the request proceeds; an r that parses gives its value.
C4_RateNeverSurfacesError ==
    \A p \in Procs :
        frame[p].seq > 0 =>
            LET q == frame[p].query.r
                parsed == ParseFloat(q.v)
            IN  /\ ~(frame[p].response.status = "error" /\ frame[p].response.at = "greeks_view")
                /\ frame[p].params # <<>>
                /\ ParamGet(frame[p].params, "r") =
                      IF q.has /\ parsed.ok THEN parsed.v ELSE DefaultRate

Abs(x) == IF x < 0 THEN 0 - x ELSE x

\* the distances from t to the observations of a spot series
Dists(t, sp) == {Abs(t - sp[j].datetime) : j \in 1..Len(sp)}

Within(t, sp, tol) == \E d \in Dists(t, sp) : d <= tol

MinDist(t, sp) == CHOOSE d \in Dists(t, sp) : \A e \in Dists(t, sp) : d <= e

\* the output rows of a merge that come from option row i
RowsFrom(i) ==
    {k \in 1..Len(call.result) : call.result[k].close = call.option_df[i].close}

MergeDone == call.op = "merge_with_spot" /\ call.done

\* C5: the output of merge_with_spot holds no row without a spot price, and no
\* row for an option observation with no spot observation within 60 seconds.
C5_UnmatchedRowsDropped ==
    MergeDone =>
        /\ \A k \in 1..Len(call.result) : call.result[k].close_spot # NaN
        /\ \A i \in 1..Len(call.option_df) :
              ~Within(call.option_df[i].datetime, call.spot_df, Tolerance)
                  => RowsFrom(i) = {}

\* C6: every option observation whose nearest spot observation is at most 60
\* seconds away (before or after, 60 included) appears exactly once, with the
\* close of a spot observation at that minimal distance; no option observation
\* gives more than one output row.
C6_NearestWithinInclusiveTolerance ==
    MergeDone =>
        \A i \in 1..Len(call.option_df) :
            LET t == call.option_df[i].datetime
            IN  /\ Cardinality(RowsFrom(i)) <= 1
                /\ Within(t, call.spot_df, 60) =>
                      /\ Cardinality(RowsFrom(i)) = 1
                      /\ \A k \in RowsFrom(i) :
                            /\ call.result[k].datetime = t
                            /\ \E j \in 1..Len(call.spot_df) :
                                  /\ Abs(t - call.spot_df[j].datetime) = MinDist(t, call.spot_df)
                                  /\ call.result[k].close_spot = call.spot_df[j].close

\* a merge in which one observation lies exactly 60 seconds before its nearest
\* spot observation and another 59 seconds after, both matched
C6_Witness ==
    /\ MergeDone
    /\ \E i, j \in 1..Len(call.option_df) :
          /\ call.option_df[i].datetime = 40
          /\ call.option_df[j].datetime = 159
          /\ call.spot_df # <<>>
          /\ \A x \in 1..Len(call.spot_df) : call.spot_df[x].datetime = 100
          /\ \E k \in RowsFrom(i) : call.result[k].close_spot # NaN
          /\ \E k \in RowsFrom(j) : call.result[k].close_spot # NaN

IsAggKey(k) == Len(k) >= 7 /\ SubSeq(k, 1, 7) = "greeks_"

\* request q is the one that came right after request p, at the same instant
\* and with the same normalised parameters
FollowsAtOnce(p, q) ==
    /\ frame[p].seq > 0
    /\ frame[q].seq = frame[p].seq + 1
    /\ Done(p)
    /\ frame[q].started = frame[p].finished
    /\ frame[q].params = frame[p].params

\* C7: the cache never holds an empty aggregate, and the request that follows
\* at once (no file touched in between) on one that returned an empty result
\* misses again and runs the whole pipeline: it loads the spot series, asks
\* for the universe and responds.
C7_EmptyNeverCachedAndRerun ==
    /\ \A k \in DOMAIN cache : IsAggKey(k) => Len(cache[k].value.v) > 0
    /\ \A p, q \in Procs :
          ( /\ FollowsAtOnce(p, q)
            /\ nwrites = 0
            /\ frame[p].response = Ok(<<>>)
            /\ Done(q) )
          => /\ Missed(q)
             /\ frame[q].enumerated
             /\ frame[q].response.status = "ok"

\* request p missed, computed a non-empty aggregate and stored it
Stored(p) ==
    /\ Done(p)
    /\ Missed(p)
    /\ frame[p].response.status = "ok"
    /\ frame[p].response.body # <<>>

\* C8: the latest request, if it missed and computed a non-empty aggregate,
\* left it under its key with a timeout of one hour; and the next request, if
\* it has the same normalised parameters and starts less than an hour after,
\* returns exactly that aggregate, with no loader call, no enumeration and no
\* cache write.
C8_AggregateHitIsVerbatim ==
    /\ \A p \in Procs :
          (Stored(p) /\ frame[p].seq = nreq) =>
              /\ frame[p].cache_key \in DOMAIN cache
              /\ cache[frame[p].cache_key] =
                    [value |-> PyList(frame[p].response.body),
                     expires |-> frame[p].finished + 3600]
    /\ \A p, q \in Procs :
          ( /\ Stored(p)
            /\ frame[q].seq = frame[p].seq + 1
            /\ frame[q].params = frame[p].params
            /\ frame[q].started < frame[p].finished + 3600 )
          => /\ Done(q)
             /\ frame[q].response = Ok(frame[p].response.body)
             /\ frame[q].loads = <<>>
             /\ ~frame[q].enumerated
             /\ frame[q].sets = <<>>

\* a request served from the aggregate its predecessor stored 3599 seconds before
C8_Witness ==
    \E p, q \in Procs :
        /\ Stored(p)
        /\ frame[q].seq = frame[p].seq + 1
        /\ frame[q].params = frame[p].params
        /\ frame[q].started = frame[p].finished + 3599
        /\ Done(q)
        /\ frame[q].response = Ok(frame[p].response.body)

KeyDone == call.op = "get_cache_key" /\ call.done

\* two dicts are equal after sorting their keys: they hold the same items
SameDict(d1, d2) == {d1[i] : i \in 1..Len(d1)} = {d2[i] : i \in 1..Len(d2)}

\* C9: parameter structures that are equal after sorting their keys get the
\* same key under the same prefix, and a key is the prefix, an underscore and
\* the digest.
C9_KeyIgnoresConstructionOrder ==
    KeyDone =>
        /\ SameDict(call.p1, call.p2) => call.k1 = call.k2
        /\ SubSeq(call.k1, 1, Len(call.prefix) + 1) = call.prefix \o "_"
        /\ SubSeq(call.k1, Len(call.prefix) + 2, Len(call.prefix) + 1 + Len(DigestTag))
              = DigestTag

\* two structures with the same two items, inserted in different orders
C9_Witness ==
    /\ KeyDone
    /\ Len(call.p1) = 2
    /\ call.p1 # call.p2
    /\ SameDict(call.p1, call.p2)
    /\ call.k1 = call.k2

MarkerSet(params) ==
    LET l == ParamGet(params, "time_filter") IN {l[i] : i \in 1..Len(l)}

\* C10: two requests with equal normalised rates and the same set of
\* normalised time markers derive the same aggregate cache key.
C10_SameMarkerSetSameKey ==
    \A p, q \in Procs :
        ( /\ frame[p].params # <<>>
          /\ frame[q].params # <<>>
          /\ ParamGet(frame[p].params, "r") = ParamGet(frame[q].params, "r")
          /\ MarkerSet(frame[p].params) = MarkerSet(frame[q].params) )
        => frame[p].cache_key = frame[q].cache_key

GreeksDone == call.op = "calculate_all_greeks" /\ call.done

\* the time to expiry of observation i of the call, in seconds
SecondsToExpiry(i) == Strptime(call.file_info.expiry) - call.merged_df[i].datetime

\* observation i makes the solver or the formula fail
RowFails(i) ==
    LET row == WithColumn(call.merged_df[i], "T", SecondsToExpiry(i))
        iv == implied_volatility(row)
    IN  \/ ~iv.ok
        \/ ~compute_greeks(row.close_spot, call.file_info.strike, row.T,
                           ParamGet(call.params, "r"), iv.v, call.file_info.type).ok

\* the observations of positive time to expiry, and those of them that fail
Live == {i \in 1..Len(call.merged_df) : SecondsToExpiry(i) > 0}
Failing == {i \in Live : RowFails(i)}

\* the observations that do not fail, in input order
Survivors ==
    SelectRows([i \in 1..Len(call.merged_df) |-> i],
               [i \in 1..Len(call.merged_df) |-> i \in Live \ Failing])

\* result row k was computed from observation i
RowOf(k, i) ==
    /\ call.result[k].datetime = IsoFormat(call.merged_df[i].datetime)
    /\ call.result[k].greeks[6][2] = call.merged_df[i].close

\* C11: calculate_all_greeks returns N - k rows for N observations of positive
\* time to expiry of which k make the solver or the formula fail: one row per
\* non-failing observation, in input order, whatever fails before it.
C11_RowFailureIsolated ==
    GreeksDone =>
        /\ Len(call.result) = Cardinality(Live) - Cardinality(Failing)
        /\ Len(call.result) = Len(Survivors)
        /\ \A k \in 1..Len(call.result) : RowOf(k, Survivors[k])

\* ten observations, one failure that is not the last one, nine rows
C11_Witness ==
    /\ GreeksDone
    /\ Cardinality(Live) = 10
    /\ Cardinality(Failing) = 1
    /\ 10 \notin Failing
    /\ Len(call.result) = 9
    /\ RowOf(9, 10)

\* C12: an observation at or after midnight of the expiry date is not handed to
\* the solver and gives no row; one a second before midnight is handed to the
\* solver, and gives a row when solver and formula succeed.
C12_ExpiryBoundary ==
    GreeksDone =>
        \A i \in 1..Len(call.merged_df) :
            /\ SecondsToExpiry(i) <= 0 =>
                  /\ \A k \in 1..Len(call.passed) :
                        call.passed[k].datetime # call.merged_df[i].datetime
                  /\ \A k \in 1..Len(call.result) :
                        call.result[k].datetime # IsoFormat(call.merged_df[i].datetime)
            /\ SecondsToExpiry(i) = 1 =>
                  /\ \E k \in 1..Len(call.passed) :
                        /\ call.passed[k].datetime = call.merged_df[i].datetime
                        /\ call.passed[k].close = call.merged_df[i].close
                  /\ ~RowFails(i) => \E k \in 1..Len(call.result) : RowOf(k, i)

\* good observations a second before expiry and at expiry: only the first
\* gives a row
C12_Witness ==
    /\ GreeksDone
    /\ \E i, j \in 1..Len(call.merged_df) :
          /\ SecondsToExpiry(i) = 1 /\ ~RowFails(i)
          /\ SecondsToExpiry(j) = 0
          /\ call.merged_df[j].close > 0 /\ call.merged_df[j].close_spot > 0
    /\ Len(call.result) = 1

FilterDone == call.op = "filter_by_times" /\ call.done

\* every marker of the list is empty or whitespace
AllBlank(tf) == \A i \in 1..Len(tf) : IsBlank(tf[i])

\* the observations of df whose HH:MM clock time is one of the markers
OnMarkers(df, tf) ==
    SelectRows(df, [k \in 1..Len(df) |->
                       TimeStr(df[k].datetime) \in {tf[i] : i \in 1..Len(tf)}])

\* C13: filter_by_times returns its input unchanged when the marker list is
\* empty or holds only blank strings; otherwise it returns exactly the
\* observations whose HH:MM is a marker, in their order, with the input's
\* columns and values.
C13_FilterSelectsMarkers ==
    FilterDone =>
        /\ AllBlank(call.time_filters) => call.result = call.df
        /\ ~AllBlank(call.time_filters) =>
              /\ call.result = OnMarkers(call.df, call.time_filters)
              /\ \A k \in 1..Len(call.result) : DOMAIN call.result[k] = OptCols

\* C14: filtering a filtered series again by the same markers changes nothing.
C14_FilterIdempotent ==
    FilterDone => call.again = call.result

\* an unsorted series that the filter shortens, filtered twice
C14_Witness ==
    /\ FilterDone
    /\ Len(call.df) = 2
    /\ call.df[1].datetime > call.df[2].datetime
    /\ Len(call.result) = 1
    /\ call.again = call.result

NormalizeDone == call.op = "normalize" /\ call.done

\* the entries of a time_filter text that are not blank, in order
NonBlankEntries(q) ==
    LET es == StrSplit(IF q.has THEN q.v ELSE "", ",")
    IN  SelectRows(es, [i \in 1..Len(es) |-> ~IsBlank(es[i])])

\* C15: the normalised marker list is the non-blank comma-separated entries of
\* time_filter, or the default schedule when there are none; the list handed
\* to filter_by_times is never empty and holds no blank entry.
C15_MarkersNormalised ==
    NormalizeDone =>
        LET kept == NonBlankEntries(call.query.time_filter)
            tf == ParamGet(call.params, "time_filter")
        IN  /\ tf = IF Len(kept) = 0
                    THEN <<"09:15", "10:15", "11:15", "12:15", "13:15", "15:15">>
                    ELSE kept
            /\ call.passed = tf
            /\ Len(call.passed) > 0
            /\ \A i \in 1..Len(call.passed) : ~IsBlank(call.passed[i])

\* a time_filter with an empty entry, a whitespace entry and a marker
C15_Witness ==
    /\ NormalizeDone
    /\ call.query.time_filter = Given(", ,09:15")
    /\ call.passed = <<"09:15">>

\* a time_filter whose every entry is blank gives the default schedule
C15_WitnessDefault ==
    /\ NormalizeDone
    /\ call.query.time_filter = Given(" ,")
    /\ Len(call.passed) = 6

\* what a lone request with these parameters computes from the files as they
\* are: the rows of every instrument of the universe, in order
FreshAggregate(params) ==
    LET spot_df == ReadCsv(files[SPOT_CSV]).rows
        R[i \in 0..Len(universe)] ==
            IF i = 0 THEN <<>>
            ELSE R[i - 1] \o InstrumentRows(ReadOption(files[universe[i].path], universe[i]).rows,
                                            spot_df, universe[i], params)
    IN  R[Len(universe)]

\* the cache as a lone request with these parameters leaves it: the spot
\* series, every readable option series, and the aggregate if it is not empty
CacheHoldsFresh(params, key) ==
    /\ SpotKey(files[SPOT_CSV].mtime) \in DOMAIN cache
    /\ cache[SpotKey(files[SPOT_CSV].mtime)].value = DataFrame(ReadCsv(files[SPOT_CSV]).rows)
    /\ \A i \in 1..Len(universe) :
          LET got == ReadOption(files[universe[i].path], universe[i])
              k == OptionKey(files[universe[i].path].mtime, universe[i])
          IN  got.ok => k \in DOMAIN cache /\ cache[k].value = DataFrame(got.rows)
    /\ IF FreshAggregate(params) = <<>>
       THEN key \notin DOMAIN cache
       ELSE key \in DOMAIN cache /\ cache[key].value = PyList(FreshAggregate(params))

\* C16: two requests with equal normalised parameters, however their steps
\* interleave, each return the aggregate a lone request returns, and when both
\* have finished the aggregate entry and the series entries hold what a lone
\* request would have stored.
C16_ConcurrentSameKeyHarmless ==
    \A p, q \in Procs :
        ( /\ p # q
          /\ Done(p) /\ Done(q)
          /\ frame[p].params # <<>>
          /\ frame[p].params = frame[q].params )
        => /\ frame[p].response = Ok(FreshAggregate(frame[p].params))
           /\ frame[q].response = Ok(FreshAggregate(frame[p].params))
           /\ CacheHoldsFresh(frame[p].params, frame[p].cache_key)

\* request q came right after request p
Follows(p, q) == frame[p].seq > 0 /\ frame[q].seq = frame[p].seq + 1

\* C17: series keys are made of the file's modification time (and, for an
\* option, its expiry, strike and type) and of nothing else; and a request that
\* follows one which populated the series caches, with other parameters and
\* the files unchanged, completes normally with every series taken from the
\* cache and no file read.
C17_SeriesSharedAcrossParameters ==
    /\ \A p \in Procs : \A e \in Entries(p) :
          e.key # "" =>
              e.key = IF e.fn = "get_spot_data" THEN SpotKey(e.mtime)
                      ELSE OptionKey(e.mtime, e.file_info)
    /\ \A p, q \in Procs :
          ( /\ Follows(p, q)
            /\ Done(p) /\ Missed(p) /\ frame[p].response.status = "ok"
            /\ Done(q) /\ Missed(q)
            /\ frame[q].params # frame[p].params
            /\ nwrites = 0
            /\ frame[q].started < frame[p].started + SpotTTL )
          => /\ frame[q].response.status = "ok"
             /\ Len(frame[q].loads) = 1 + Len(universe)
             /\ \A e \in Entries(q) :
                   e.cached # PyNone /\ ~e.read /\ e.out = "return" /\ e.value = e.cached.v

\* the file a loader call saw
FileSeen(e) == [exists |-> e.exists, mtime |-> e.mtime, content |-> e.content]

IsOptionKey(k) == Len(k) >= 7 /\ SubSeq(k, 1, 7) = "option_"

SameWithinHour(p, q) ==
    /\ Follows(p, q)
    /\ frame[q].params = frame[p].params
    /\ frame[q].started < frame[p].finished + AggTTL

\* C19: the aggregate key is a function of the normalised parameters alone, so
\* file changes do not invalidate a stored aggregate: a same-parameter request
\* within the hour returns it though files were modified, and a response that
\* shows what the files now hold comes only after the hour or for other
\* parameters.
C19_AggregateOutlivesFileChanges ==
    /\ \A p \in Procs :
          frame[p].params # <<>> =>
              frame[p].cache_key = get_cache_key("greeks", frame[p].params)
    /\ \A p, q \in Procs :
          (Stored(p) /\ SameWithinHour(p, q) /\ nwrites > 0 /\ Done(q))
              => frame[q].response = Ok(frame[p].response.body)
    /\ \A p, q \in Procs :
          ( /\ Stored(p) /\ Follows(p, q) /\ Done(q)
            /\ frame[q].params # <<>>
            /\ frame[q].response = Ok(FreshAggregate(frame[q].params))
            /\ FreshAggregate(frame[q].params) # frame[p].response.body )
          => \/ frame[q].params # frame[p].params
             \/ frame[q].started >= frame[p].finished + AggTTL

\* a file was rewritten after the aggregate was stored, so that a fresh
\* computation would give other rows, and the next request got the stored ones
C19_Witness ==
    \E p, q \in Procs :
        /\ Stored(p) /\ SameWithinHour(p, q) /\ Done(q)
        /\ nwrites = 1
        /\ \A path \in Paths : files[path].exists
        /\ \E e \in Entries(p) : files[e.file_info.path].mtime > e.mtime
        /\ FreshAggregate(frame[q].params) # <<>>
        /\ FreshAggregate(frame[q].params) # frame[p].response.body
        /\ frame[q].response = Ok(frame[p].response.body)

\* a thread leaves line 42-48 of get_option_data, or line 27-28 of get_spot_data
OptReadStep(p) == frame[p].pc = "opt_read" /\ frame'[p].pc # "opt_read"
SpotReadStep(p) == frame[p].pc = "spot_read" /\ frame'[p].pc # "spot_read"

\* the read and filter of the option load thread p is in raise
OptReadFails(p) ==
    LET file_info == frame[p].option_files[frame[p].idx]
    IN  ~ReadOption(files[file_info.path], file_info).ok

\* an option load whose read or filter raised
FailedLoad(e) ==
    e.fn = "get_option_data" /\ e.read /\ ~ReadOption(FileSeen(e), e.file_info).ok

\* an option load whose read or filter raises writes nothing to the cache,
\* and a series entry is written only by a load whose read succeeded
WritesOnlyAfterRead ==
    [][\A p \in Procs :
          /\ (OptReadStep(p) /\ OptReadFails(p)) => cache' = cache
          /\ (OptReadStep(p) /\ cache' # cache) =>
                LET file_info == frame[p].option_files[frame[p].idx]
                    got == ReadOption(files[file_info.path], file_info)
                IN  /\ got.ok
                    /\ cache' = CacheSet(cache, frame[p].series_key, DataFrame(got.rows),
                                         now, 86400)
          /\ (SpotReadStep(p) /\ cache' # cache) => ReadCsv(files[SPOT_CSV]).ok]_vars

\* a later load of the same instrument at the same modification time, after
\* one whose read raised, finds nothing cached and reads the file again
FailedLoadIsRetried ==
    \A p, q \in Procs : \A e \in Entries(p) : \A l \in Entries(q) :
        ( /\ frame[q].seq > frame[p].seq
          /\ FailedLoad(e)
          /\ l.fn = "get_option_data"
          /\ l.file_info = e.file_info
          /\ l.exists /\ l.mtime = e.mtime )
        => /\ l.key = e.key
           /\ l.cached = PyNone
           /\ l.out # "raise"
           /\ (l.out = "pending" \/ l.read)

\* C20: a failed option load leaves the cache unchanged: the step that raises
\* in the read or the filter writes no entry, series entries are written only
\* after a successful read, and the next load of the instrument at the same
\* modification time reads the file again instead of finding an empty series.
C20_FailedLoadLeavesCache == WritesOnlyAfterRead /\ []FailedLoadIsRetried

\* B.csv could not be read; the next request, within the day and with B.csv
\* untouched, read it again
C20_Witness ==
    \E p, q \in Procs : \E e \in Entries(p) : \E l \in Entries(q) :
        /\ Follows(p, q)
        /\ FailedLoad(e)
        /\ l.fn = "get_option_data" /\ l.file_info = e.file_info
        /\ l.mtime = e.mtime
        /\ l.read
        /\ now < OptionTTL
=============================================================================
